---- MODULE Spec2Model ----
(***************************************************************************)
(* Model of Wad::from_file (src/src/wad.rs): the header reader, the        *)
(* directory walker and the map assembler of the WAD loader.               *)
(*                                                                         *)
(* One load is one behaviour.  The header and the directory records of the *)
(* file are chosen when they are read (each is read exactly once, in file  *)
(* order); the payload region of the file is the fixed byte string         *)
(* Payload.  Names and payloads are byte sequences, bytes are integers.    *)
(***************************************************************************)
EXTENDS Integers, Sequences, FiniteSets, TLC

VARIABLES
    file,               \* the file that is loaded
    pc,                 \* where the load stands
    pos,                \* the stream position of f, None before File::open
    header,             \* the local header
    wad,                \* the local wad, None before Wad::new
    i,                  \* the records the loop consumed
    possible_map_name,
    map_components,
    ret                 \* what from_file returned, None while it runs

vars == <<file, pc, pos, header, wad, i, possible_map_name, map_components, ret>>

---------------------------------------------------------------------------
(* Bounds of the model. *)

\* directory_count of the files considered (besides the empty ones)
MaxDir == 13
\* at most this many lumps are routed to the music list in one load
MaxMusic == 1
\* directory_count of the files that hold nothing but maps
MaxPlainDir == 20

---------------------------------------------------------------------------
(* Byte strings of the source. *)

NUL == 0

IWAD == <<73, 87, 65, 68>>
PWAD == <<80, 87, 65, 68>>
MThd == <<77, 84, 104, 100>>
MUS == <<77, 85, 83, 26>>

THINGS == <<84, 72, 73, 78, 71, 83>>
LINEDEFS == <<76, 73, 78, 69, 68, 69, 70, 83>>
SIDEDEFS == <<83, 73, 68, 69, 68, 69, 70, 83>>
VERTEXES == <<86, 69, 82, 84, 69, 88, 69, 83>>
SEGS == <<83, 69, 71, 83>>
SSECTORS == <<83, 83, 69, 67, 84, 79, 82, 83>>
NODES == <<78, 79, 68, 69, 83>>
SECTORS == <<83, 69, 67, 84, 79, 82, 83>>
REJECT == <<82, 69, 74, 69, 67, 84>>
BLOCKMAP == <<66, 76, 79, 67, 75, 77, 65, 80>>
BEHAVIOR == <<66, 69, 72, 65, 86, 73, 79, 82>>
SCRIPTS == <<83, 67, 82, 73, 80, 84, 83>>

\* enum LumpKind
LumpKind ==
    {"Things", "Linedefs", "Sidedefs", "Vertexes", "Segs", "Subsectors", "Nodes",
     "Sectors", "Reject", "Blockmap", "Behavior", "Scripts", "Other"}

REQUIRED_MAP_COMPONENTS ==
    {"Things", "Linedefs", "Sidedefs", "Vertexes", "Segs", "Subsectors", "Nodes",
     "Sectors", "Blockmap"}

OPTIONAL_MAP_COMPONENTS == {"Reject", "Behavior", "Scripts"}

---------------------------------------------------------------------------
(* The files considered. *)

\* names that are no component names
MAP01 == <<77, 65, 80, 48, 49>>
E1M1 == <<69, 49, 77, 49>>
D_E1M1 == <<68, 95, 69, 49, 77, 49>>

\* the 8-byte name field of a directory record: s, NUL-padded
Pad8(s) == s \o [k \in 1..(8 - Len(s)) |-> NUL]

\* the name fields of the directory records considered: every component
\* name (one in lower case, one in mixed case), three other names (one
\* with bytes after its NUL, one in lower case), and one that is no UTF-8
ThingsLower == Pad8(<<116, 104, 105, 110, 103, 115>>)
ComponentRawNames ==
    { ThingsLower,                                 \* "things"
      LINEDEFS, SIDEDEFS, VERTEXES, Pad8(SEGS), SSECTORS, Pad8(NODES),
      Pad8(SECTORS),
      Pad8(<<82, 101, 106, 101, 99, 116>>),        \* "Reject"
      BLOCKMAP, BEHAVIOR, Pad8(SCRIPTS) }
Map01Raw == MAP01 \o <<NUL, 88, 88>>              \* "MAP01\0XX"
E1m1Lower == Pad8(<<101, 49, 109, 49>>)           \* "e1m1"
MusicRaw == Pad8(D_E1M1)
BadRawNames == { Pad8(<<255, 65>>) }               \* no UTF-8

\* the file: 12 header bytes, then Payload, then the directory
PayloadBase == 12
Payload == MThd \o MUS
DirPtr == PayloadBase + Len(Payload)

\* the signatures considered: both recognised ones and another
Signatures == {IWAD, PWAD, <<80, 75, 3, 4>>}

\* the files considered: their path, their first four bytes and their
\* family
Files ==
    {[path |-> "doom.wad", id |-> IWAD, family |-> "empty"],
     [path |-> "patch.wad", id |-> PWAD, family |-> "payload"],
     [path |-> "maps.wad", id |-> IWAD, family |-> "plain"]}
    \cup [path : {"archive.zip"}, id : Signatures \ {IWAD, PWAD}, family : {"empty"}]

\* the values of the header's dir_ct considered
DirCounts == {-1, 0, 1, MaxDir}
DirCountsOf(f) == IF f = "plain" THEN {MaxPlainDir} ELSE DirCounts

\* the length of a file whose directory holds n records
FileLen(n) == DirPtr + 12 * (IF n > 0 THEN n ELSE 0)

---------------------------------------------------------------------------
(* Values. *)

None == [tag |-> "None"]
Some(x) == [tag |-> "Some", val |-> x]

Ok(w) == [tag |-> "Ok", wad |-> w]
Err(e) == [tag |-> "Err", err |-> e]

\* enum Error
Io == [kind |-> "Io"]
Utf8 == [kind |-> "Utf8"]
\* mutant: the error does not say which file
NotAWadNoPath(path) == [kind |-> "NotAWad", path |-> ""]

NotAWad(path) == [kind |-> "NotAWad", path |-> path]
InvalidLumpOrder(ptr, name) == [kind |-> "InvalidLumpOrder", ptr |-> ptr, name |-> name]

\* Wad::new
WadNew(h) ==
    [header |-> h, lumps |-> <<>>, maps |-> <<>>, sounds |-> <<>>,
     music |-> <<>>, playpal |-> None, colormap |-> None, endoom |-> None,
     textures |-> <<None, None>>, demos |-> <<None, None, None>>]

\* HashMap<LumpKind, Lump>: a function on the kinds it holds
EmptyMap == [k \in {} |-> None]
contains_key(m, k) == k \in DOMAIN m
insert(m, k, v) == [x \in DOMAIN m \cup {k} |-> IF x = k THEN v ELSE m[x]]
\* remove: the value removed, and the map left
removed(m, k) == IF k \in DOMAIN m THEN Some(m[k]) ELSE None
remove(m, k) == [x \in DOMAIN m \ {k} |-> m[x]]
is_empty(m) == DOMAIN m = {}

---------------------------------------------------------------------------
(* The pure steps of one iteration. *)

\* raw_lump.name.iter().cloned().take_while(|&b| b != b'\0')
take_while_not_nul(raw) ==
    LET stops == {k \in 1..Len(raw) : raw[k] = NUL}
        n == IF stops = {} THEN Len(raw)
             ELSE (CHOOSE k \in stops : \A j \in stops : k <= j) - 1
    IN  SubSeq(raw, 1, n)

\* String::from_utf8 succeeds; the names considered hold ASCII bytes and
\* the byte 255, which no UTF-8 text holds
from_utf8_ok(bytes) == \A k \in 1..Len(bytes) : bytes[k] < 128

\* str::to_uppercase, on ASCII text
to_uppercase(s) ==
    [k \in 1..Len(s) |-> IF s[k] >= 97 /\ s[k] <= 122 THEN s[k] - 32 ELSE s[k]]

\* the lump's name, of a record whose name field decodes
LumpName(raw) == to_uppercase(take_while_not_nul(raw.name))

\* seek to ptr and read_exact size bytes succeeds: the bytes lie before the
\* end of the largest file considered (no record considered points into
\* the header or the directory)
read_ok(ptr, size) == size = 0 \/ ptr + size <= FileLen(MaxDir)

\* the bytes read: the records considered point into Payload
read_data(ptr, size) ==
    IF size = 0 THEN <<>>
    ELSE SubSeq(Payload, ptr - PayloadBase + 1, ptr - PayloadBase + size)

\* lump.kind = match lump.name.as_str()
Classify(name) ==
    CASE name = THINGS -> "Things"
      [] name = LINEDEFS -> "Linedefs"
      [] name = SIDEDEFS -> "Sidedefs"
      [] name = VERTEXES -> "Vertexes"
      [] name = SEGS -> "Segs"
      [] name = SSECTORS -> "Subsectors"
      [] name = NODES -> "Nodes"
      [] name = SECTORS -> "Sectors"
      [] name = REJECT -> "Reject"
      [] name = BLOCKMAP -> "Blockmap"
      [] name = BEHAVIOR -> "Behavior"
      [] name = SCRIPTS -> "Scripts"
      [] OTHER -> "Other"

\* the Lump of a record that was read
LumpOf(raw) ==
    [name |-> LumpName(raw), data |-> read_data(raw.ptr, raw.size),
     kind |-> Classify(LumpName(raw))]

\* the directory records considered, in two families of files.  Payload
\* offsets: those of "MThd", of "ThdM" and of "MUS\x1A" in the file, and
\* one beyond the end of the file.
\*   "empty":   every name, every lump of size 0 (read as an IWAD, or
\*              under a signature that is not recognised);
\*   "payload": no optional component; a component lump is empty, but for
\*              "things", which may also hold "MThd"; "e1m1" is empty or
\*              holds "ThdM"; "D_E1M1" has any of the payloads (read as
\*              a PWAD); one record "e1m1" has the size -1;
\*   "plain":   the required components and "MAP01", every lump of size 0
\*              (read as an IWAD of MaxPlainDir records).
Families == {"empty", "payload", "plain"}

RequiredRawNames ==
    {n \in ComponentRawNames :
        Classify(LumpName([name |-> n])) \in REQUIRED_MAP_COMPONENTS}

EmptyRecords ==
    [ptr : {16}, size : {0}, name : ComponentRawNames]
    \cup [ptr : {12}, size : {0}, name : {Map01Raw, E1m1Lower} \cup BadRawNames]

PayloadRecords ==
    [ptr : {16}, size : {0}, name : RequiredRawNames]
    \cup [ptr : {12}, size : {4}, name : {ThingsLower}]
    \cup [ptr : {12}, size : {0}, name : {E1m1Lower}]
    \cup [ptr : {13}, size : {4}, name : {E1m1Lower}]
    \cup [ptr : {12, 13, 16, 4096}, size : {4}, name : {MusicRaw}]
    \cup [ptr : {12}, size : {0}, name : BadRawNames]
    \cup [ptr : {12}, size : {-1}, name : {E1m1Lower}]

PlainRecords ==
    [ptr : {16}, size : {0}, name : RequiredRawNames]
    \cup [ptr : {12}, size : {0}, name : {Map01Raw}]

\* the records whose name does not decode
Undecodable(recs) == {raw \in recs : ~from_utf8_ok(take_while_not_nul(raw.name))}

\* the records whose name decodes and whose size is negative: size as usize
\* is then beyond isize::MAX and Vec::with_capacity panics
Overflowing(recs) == {raw \in recs \ Undecodable(recs) : raw.size < 0}

\* the records that get their buffer and whose payload cannot be read
Unreadable(recs) ==
    {raw \in (recs \ Undecodable(recs)) \ Overflowing(recs) :
        ~read_ok(raw.ptr, raw.size)}

\* the records that are read whole, each with its Lump
Loaded(recs) ==
    {[raw |-> raw, lump |-> LumpOf(raw)] :
        raw \in ((recs \ Undecodable(recs)) \ Overflowing(recs)) \ Unreadable(recs)}

EmptyUndecodable == Undecodable(EmptyRecords)
EmptyUnreadable == Unreadable(EmptyRecords)
EmptyLoaded == Loaded(EmptyRecords)
PayloadUndecodable == Undecodable(PayloadRecords)
PayloadUnreadable == Unreadable(PayloadRecords)
PayloadLoaded == Loaded(PayloadRecords)
PayloadOverflowing == Overflowing(PayloadRecords)
PlainLoaded == Loaded(PlainRecords)

\* the records a file of family f may hold, by what reading them does
UndecodableOf(f) ==
    CASE f = "empty" -> EmptyUndecodable
      [] f = "payload" -> PayloadUndecodable
      [] OTHER -> {}
OverflowingOf(f) == IF f = "payload" THEN PayloadOverflowing ELSE {}
UnreadableOf(f) ==
    CASE f = "empty" -> EmptyUnreadable
      [] f = "payload" -> PayloadUnreadable
      [] OTHER -> {}
LoadedOf(f) ==
    CASE f = "empty" -> EmptyLoaded
      [] f = "payload" -> PayloadLoaded
      [] OTHER -> PlainLoaded

\* mutant: only the MIDI header is looked for
IsMusicMidiOnly(data) == Len(data) >= 4 /\ SubSeq(data, 1, 4) = MThd

\* the music header check
IsMusic(data) == Len(data) >= 4 /\ (SubSeq(data, 1, 4) = MThd \/ SubSeq(data, 1, 4) = MUS)

\* mutant: the check asks for the optional kinds too
AllRequiredAndOptional(m) ==
    \A c \in REQUIRED_MAP_COMPONENTS \cup OPTIONAL_MAP_COMPONENTS : contains_key(m, c)

\* mutant: the check forgets Blockmap
AllRequiredButBlockmap(m) ==
    \A c \in REQUIRED_MAP_COMPONENTS \ {"Blockmap"} : contains_key(m, c)

\* REQUIRED_MAP_COMPONENTS.iter().all(|c| map_components.contains_key(c))
AllRequired(m) == \A c \in REQUIRED_MAP_COMPONENTS : contains_key(m, c)

IsComponent(kind) == kind \in REQUIRED_MAP_COMPONENTS \/ kind \in OPTIONAL_MAP_COMPONENTS

\* mutant: the name is the default String
MapFromUnnamed(n, m) ==
    [name |-> <<>>,
     things |-> removed(m, "Things"),
     linedefs |-> removed(m, "Linedefs"),
     sidedefs |-> removed(m, "Sidedefs"),
     vertexes |-> removed(m, "Vertexes"),
     segs |-> removed(m, "Segs"),
     subsectors |-> removed(m, "Subsectors"),
     nodes |-> removed(m, "Nodes"),
     sectors |-> removed(m, "Sectors"),
     reject |-> removed(m, "Reject"),
     blockmap |-> removed(m, "Blockmap"),
     behavior |-> removed(m, "Behavior"),
     scripts |-> removed(m, "Scripts")]

\* the Map built from the accumulator m under the name n: one remove per
\* field, in the order of the struct literal
MapFrom(n, m) ==
    [name |-> n,
     things |-> removed(m, "Things"),
     linedefs |-> removed(m, "Linedefs"),
     sidedefs |-> removed(m, "Sidedefs"),
     vertexes |-> removed(m, "Vertexes"),
     segs |-> removed(m, "Segs"),
     subsectors |-> removed(m, "Subsectors"),
     nodes |-> removed(m, "Nodes"),
     sectors |-> removed(m, "Sectors"),
     reject |-> removed(m, "Reject"),
     blockmap |-> removed(m, "Blockmap"),
     behavior |-> removed(m, "Behavior"),
     scripts |-> removed(m, "Scripts")]

\* mutant: Scripts is read with get, not removed
DrainedButScripts(m) ==
    remove(remove(remove(remove(remove(remove(remove(remove(remove(remove(remove(m,
        "Things"), "Linedefs"), "Sidedefs"), "Vertexes"), "Segs"), "Subsectors"),
        "Nodes"), "Sectors"), "Reject"), "Blockmap"), "Behavior")

\* the accumulator left by these removes
Drained(m) ==
    remove(remove(remove(remove(remove(remove(remove(remove(remove(remove(remove(remove(m,
        "Things"), "Linedefs"), "Sidedefs"), "Vertexes"), "Segs"), "Subsectors"),
        "Nodes"), "Sectors"), "Reject"), "Blockmap"), "Behavior"), "Scripts")

\* the fields of Map that are a Lump (the others are an Option<Lump>)
RequiredFields ==
    {"things", "linedefs", "sidedefs", "vertexes", "segs", "subsectors", "nodes",
     "sectors", "blockmap"}
OptionalFields == {"reject", "behavior", "scripts"}

\* one of the .unwrap() calls of the struct literal panics
UnwrapPanics(map) == \E f \in RequiredFields : map[f] = None

\* the struct literal once its unwraps succeeded: a required field is the
\* Lump itself
Unwrapped(map) ==
    [f \in DOMAIN map |-> IF f \in RequiredFields THEN map[f].val ELSE map[f]]

---------------------------------------------------------------------------
(* The load. *)

\* a field of the local header that was not read yet
Unread == [tag |-> "Unread"]

Init ==
    /\ file \in Files
    /\ pc = "open"
    /\ pos = None
    /\ header = [id |-> Unread, dir_ct |-> Unread, dir_ptr |-> Unread]
    /\ wad = None
    /\ i = 0
    /\ possible_map_name = <<>>
    /\ map_components = EmptyMap
    /\ ret = None

\* a local that is out of scope
Gone == [tag |-> "Gone"]

\* return r: the locals are dropped (the file is only ever read)
Return(r) ==
    /\ file' = file
    /\ pc' = "done"
    /\ ret' = r
    /\ pos' = Gone
    /\ header' = Gone
    /\ wad' = Gone
    /\ i' = Gone
    /\ possible_map_name' = Gone
    /\ map_components' = Gone

\* return Err(e)
Fail(e) == Return(Err(e))

\* a panic unwinds from_file: the locals are dropped, nothing is returned
Panic(what) ==
    /\ file' = file
    /\ pc' = what
    /\ ret' = ret
    /\ pos' = Gone
    /\ header' = Gone
    /\ wad' = Gone
    /\ i' = Gone
    /\ possible_map_name' = Gone
    /\ map_components' = Gone

\* File::open(file.as_ref())?
Open ==
    /\ pc = "open"
    /\ pc' = "id"
    /\ pos' = 0
    /\ UNCHANGED <<file, header, wad, i, possible_map_name, map_components, ret>>

OpenFails ==
    /\ pc = "open"
    /\ Fail(Io)

\* f.read_exact(&mut header.id)? and the signature check
ReadId ==
    /\ pc = "id"
    /\ LET id == file.id IN
        IF id # IWAD /\ id # PWAD
        THEN Fail(NotAWad(file.path))
        ELSE /\ header' = [header EXCEPT !.id = id]
             /\ pos' = pos + 4
             /\ pc' = "dir"
             /\ UNCHANGED <<file, wad, i, possible_map_name, map_components, ret>>

ReadIdFails ==
    /\ pc = "id"
    /\ Fail(Io)

\* the reads of dir_ct and dir_ptr, Wad::new and the seek to the directory
ReadDir ==
    /\ pc = "dir"
    /\ \E ct \in DirCountsOf(file.family) :
        /\ header' = [header EXCEPT !.dir_ct = ct, !.dir_ptr = DirPtr]
        /\ wad' = WadNew(header')
    /\ pos' = header'.dir_ptr
    /\ pc' = "loop"
    /\ UNCHANGED <<file, i, possible_map_name, map_components, ret>>

ReadDirFails ==
    /\ pc = "dir"
    /\ Fail(Io)

\* the loop has a record to read
InLoop == pc = "loop" /\ i < header.dir_ct

\* a read of the record's ptr, size or name fails
RecordFails ==
    /\ InLoop
    /\ Fail(Io)

\* String::from_utf8(lump_name)?
NameFails ==
    /\ InLoop
    /\ \E raw \in UndecodableOf(file.family) : TRUE
    /\ Fail(Utf8)

\* Vec::with_capacity(raw_lump.size as usize), on a negative size
CapacityOverflows ==
    /\ InLoop
    /\ \E raw \in OverflowingOf(file.family) : TRUE
    /\ Panic("capacity overflow")

\* f.read_exact(&mut lump.data)?
PayloadFails ==
    /\ InLoop
    /\ \E raw \in UnreadableOf(file.family) : TRUE
    /\ Fail(Io)

\* mutant: no seek back to the saved position
AfterRecordNoSeekBack(p, raw) == raw.ptr + raw.size

\* the stream position after the iteration on the record raw, started at
\* p: the record is read (12 bytes), the position is saved, the payload is
\* read at raw.ptr, and the stream seeks back to the saved position
AfterRecord(p, raw) ==
    LET old_pos == p + 12
    IN  old_pos

\* mutant: the lump is taken for a sound
PushSound(w, lump) == [w EXCEPT !.sounds = Append(@, lump)]

\* wad.music.push(lump)
PushMusic(w, lump) == [w EXCEPT !.music = Append(@, lump)]

\* mutant: no check for a kind that is held, insert overwrites
BranchNoDuplicate(m, lump) ==
    IF IsComponent(lump.kind) THEN "accumulate"
    ELSE IF AllRequired(m) THEN "emit"
    ELSE IF ~is_empty(m) THEN "interrupt"
    ELSE IF IsMusic(lump.data) THEN "music"
    ELSE "marker"

\* mutant: the music header is looked for before the accumulator
BranchMusicFirst(m, lump) ==
    IF contains_key(m, lump.kind) THEN "duplicate"
    ELSE IF IsComponent(lump.kind) THEN "accumulate"
    ELSE IF AllRequired(m) THEN "emit"
    ELSE IF IsMusic(lump.data) THEN "music"
    ELSE IF ~is_empty(m) THEN "interrupt"
    ELSE "marker"

\* mutant: the music header is looked for before a Map is pushed
BranchMusicBeforeEmit(m, lump) ==
    IF contains_key(m, lump.kind) THEN "duplicate"
    ELSE IF IsComponent(lump.kind) THEN "accumulate"
    ELSE IF AllRequired(m) /\ IsMusic(lump.data) THEN "music"
    ELSE IF AllRequired(m) THEN "emit"
    ELSE IF ~is_empty(m) THEN "interrupt"
    ELSE IF IsMusic(lump.data) THEN "music"
    ELSE "marker"

\* the branch of the if-else chain taken on lump with the accumulator m
Branch(m, lump) ==
    IF contains_key(m, lump.kind) THEN "duplicate"
    ELSE IF IsComponent(lump.kind) THEN "accumulate"
    ELSE IF AllRequired(m) THEN "emit"
    ELSE IF ~is_empty(m) THEN "interrupt"
    ELSE IF IsMusic(lump.data) THEN "music"
    ELSE "marker"

\* the iteration on a record that was read whole, branch by branch

\* the first branch: the kind is in the accumulator
DuplicateOn(rec) ==
    /\ Branch(map_components, rec.lump) = "duplicate"
    /\ Fail(InvalidLumpOrder(rec.raw.ptr, rec.lump.name))

\* the second branch: a component enters the accumulator
AccumulateOn(rec) ==
    /\ Branch(map_components, rec.lump) = "accumulate"
    /\ pc' = pc
    /\ pos' = AfterRecord(pos, rec.raw)
    /\ map_components' = insert(map_components, rec.lump.kind, rec.lump)
    /\ i' = i + 1
    /\ UNCHANGED <<file, header, wad, possible_map_name, ret>>

\* the third branch: the accumulator holds the required kinds, a Map is
\* pushed.  An unwrap of a missing component panics; the debug assertion
\* panics in a debug build and is no code in a release build.
EmitMapOn(rec) ==
    /\ Branch(map_components, rec.lump) = "emit"
    /\ pc' \in {pc, "panic"}
    /\ pos' = AfterRecord(pos, rec.raw)
    /\ LET map == MapFrom(possible_map_name, map_components)
           left == Drained(map_components)
       IN  IF UnwrapPanics(map)
           THEN /\ pc' = "panic"
                /\ UNCHANGED <<wad, i, possible_map_name, map_components>>
           ELSE /\ wad' = [wad EXCEPT !.maps = Append(@, Unwrapped(map))]
                /\ map_components' = left
                /\ \/ /\ ~is_empty(left)
                      /\ pc' = "panic"
                      /\ possible_map_name' = <<>>
                      /\ i' = i
                   \/ /\ pc' = pc
                      /\ possible_map_name' = rec.lump.name
                      /\ i' = i + 1
    /\ UNCHANGED <<file, header, ret>>

\* the last branch, the accumulator holds something: the lump interrupts
\* a map
InterruptOn(rec) ==
    /\ Branch(map_components, rec.lump) = "interrupt"
    /\ Fail(InvalidLumpOrder(rec.raw.ptr, rec.lump.name))

\* mutant: no continue after the push, the name of the lump is kept too
MusicOnNoContinue(rec) ==
    /\ Branch(map_components, rec.lump) = "music"
    /\ Len(wad.music) < MaxMusic
    /\ pc' = pc
    /\ pos' = AfterRecord(pos, rec.raw)
    /\ wad' = PushMusic(wad, rec.lump)
    /\ possible_map_name' = rec.lump.name
    /\ i' = i + 1
    /\ UNCHANGED <<file, header, map_components, ret>>

\* the last branch, the accumulator is empty, the music header is found
MusicOn(rec) ==
    /\ Branch(map_components, rec.lump) = "music"
    /\ Len(wad.music) < MaxMusic
    /\ pc' = pc
    /\ pos' = AfterRecord(pos, rec.raw)
    /\ wad' = PushMusic(wad, rec.lump)
    /\ i' = i + 1
    /\ UNCHANGED <<file, header, possible_map_name, map_components, ret>>

\* the last branch, the accumulator is empty, no music header: the name is
\* kept and the lump is dropped at the end of the iteration
MarkerOn(rec) ==
    /\ Branch(map_components, rec.lump) = "marker"
    /\ pc' = pc
    /\ pos' = AfterRecord(pos, rec.raw)
    /\ possible_map_name' = rec.lump.name
    /\ i' = i + 1
    /\ UNCHANGED <<file, header, wad, map_components, ret>>

Duplicate == InLoop /\ \E rec \in LoadedOf(file.family) : DuplicateOn(rec)
Accumulate == InLoop /\ \E rec \in LoadedOf(file.family) : AccumulateOn(rec)
EmitMap == InLoop /\ \E rec \in LoadedOf(file.family) : EmitMapOn(rec)
Interrupt == InLoop /\ \E rec \in LoadedOf(file.family) : InterruptOn(rec)
Music == InLoop /\ \E rec \in LoadedOf(file.family) : MusicOn(rec)
Marker == InLoop /\ \E rec \in LoadedOf(file.family) : MarkerOn(rec)

\* the iteration that reads the record rec whole
Process(rec) ==
    /\ InLoop
    /\ \/ DuplicateOn(rec) \/ AccumulateOn(rec) \/ EmitMapOn(rec)
       \/ InterruptOn(rec) \/ MusicOn(rec) \/ MarkerOn(rec)

\* mutant: components left in the accumulator are an error
FinishStrict ==
    /\ pc = "loop"
    /\ ~(i < header.dir_ct)
    /\ IF is_empty(map_components) THEN Return(Ok(wad))
       ELSE Fail(InvalidLumpOrder(0, possible_map_name))

\* Ok(wad), once the range 0..dir_ct is exhausted
Finish ==
    /\ pc = "loop"
    /\ ~(i < header.dir_ct)
    /\ Return(Ok(wad))

Next ==
    \/ Open \/ OpenFails
    \/ ReadId \/ ReadIdFails
    \/ ReadDir \/ ReadDirFails
    \/ RecordFails \/ NameFails \/ CapacityOverflows \/ PayloadFails
    \/ Duplicate \/ Accumulate \/ EmitMap \/ Interrupt \/ Music \/ Marker
    \/ Finish

Spec == Init /\ [][Next]_vars

---------------------------------------------------------------------------
(* Vocabulary of the properties. *)

\* the records the loaded file may hold that are read whole
Recs == LoadedOf(file.family)

\* the maps of the Wad under construction, or of the Wad returned
MapsNow ==
    IF pc \in {"loop", "panic"} THEN wad.maps
    ELSE IF pc = "done" /\ ret.tag = "Ok" THEN ret.wad.maps
    ELSE <<>>

\* the field of Map that holds the component of a kind, and back
FieldOfKind ==
    [k \in REQUIRED_MAP_COMPONENTS \cup OPTIONAL_MAP_COMPONENTS |->
        CASE k = "Things" -> "things" [] k = "Linedefs" -> "linedefs"
          [] k = "Sidedefs" -> "sidedefs" [] k = "Vertexes" -> "vertexes"
          [] k = "Segs" -> "segs" [] k = "Subsectors" -> "subsectors"
          [] k = "Nodes" -> "nodes" [] k = "Sectors" -> "sectors"
          [] k = "Reject" -> "reject" [] k = "Blockmap" -> "blockmap"
          [] k = "Behavior" -> "behavior" [] k = "Scripts" -> "scripts"]

KindOfField ==
    [f \in RequiredFields \cup OptionalFields |->
        CHOOSE k \in DOMAIN FieldOfKind : FieldOfKind[k] = f]

\* the payload is at least 4 bytes long and starts with a music tag
StartsWithMusicTag(data) ==
    /\ Len(data) >= 4
    /\ <<data[1], data[2], data[3], data[4]>> \in {<<77, 84, 104, 100>>, <<77, 85, 83, 26>>}

\* the accumulator holds exactly / at least the nine required kinds
HoldsAllNine == REQUIRED_MAP_COMPONENTS \subseteq DOMAIN map_components

\* this step pushed one Map and the load goes on
Emitted ==
    /\ pc' = "loop"
    /\ Len(wad'.maps) = Len(wad.maps) + 1
    /\ SubSeq(wad'.maps, 1, Len(wad.maps)) = wad.maps

\* the Map this step pushed
NewMap == wad'.maps[Len(wad'.maps)]

---------------------------------------------------------------------------
(* C1 *)

\* C1: in every reachable state every Map of the maps list (of the Wad under
\* construction and of the Wad returned) holds a lump of each of the nine
\* required kinds in the field of that kind, and no unwrap of the struct
\* literal ever met a missing component; the optional fields may be None.
C1_MapsHoldAllRequired ==
    /\ pc # "panic"
    /\ \A n \in 1..Len(MapsNow) :
        /\ \A f \in RequiredFields :
             /\ MapsNow[n][f] # None
             /\ MapsNow[n][f].kind = KindOfField[f]
        /\ \A f \in OptionalFields :
             MapsNow[n][f] # None => MapsNow[n][f].val.kind = KindOfField[f]

\* a Map with one optional component present and another absent
C1_Witness ==
    /\ Len(MapsNow) > 0
    /\ MapsNow[1].reject # None
    /\ MapsNow[1].scripts = None

---------------------------------------------------------------------------
(* C2 *)

\* C2: whenever the iteration reads a record whose kind the accumulator
\* already holds, also when the accumulator holds all nine required kinds,
\* from_file returns Err(InvalidLumpOrder(ptr, name)) with that record's
\* ptr and name: no other error, no Wad and so no Map.
C2_DuplicateFails ==
    [][\A rec \in Recs :
        (pc = "loop" /\ rec.lump.kind \in DOMAIN map_components /\ Process(rec))
        => /\ pc' = "done"
           /\ ret' = [tag |-> "Err",
                      err |-> [kind |-> "InvalidLumpOrder", ptr |-> rec.raw.ptr,
                               name |-> rec.lump.name]]]_vars

\* the load failed on a second "things" record, the one that holds "MThd"
C2_Witness ==
    /\ pc = "done"
    /\ ret = [tag |-> "Err",
              err |-> [kind |-> "InvalidLumpOrder", ptr |-> 12, name |-> THINGS]]
    /\ file.family = "payload"

---------------------------------------------------------------------------
(* C3 *)

\* C3: whenever the iteration reads a lump of kind Other while the
\* accumulator is not empty and does not hold all nine required kinds
\* (it may hold optional components only), from_file returns
\* Err(InvalidLumpOrder(ptr, name)) with that record's ptr and name, also
\* when the lump's payload starts with a music tag.
C3_InterruptFails ==
    [][\A rec \in Recs :
        (/\ pc = "loop"
         /\ rec.lump.kind = "Other"
         /\ DOMAIN map_components # {}
         /\ ~HoldsAllNine
         /\ Process(rec))
        => /\ pc' = "done"
           /\ ret' = [tag |-> "Err",
                      err |-> [kind |-> "InvalidLumpOrder", ptr |-> rec.raw.ptr,
                               name |-> rec.lump.name]]]_vars

\* the load failed on the record "D_E1M1" at 16, whose payload is "MUS\x1A"
C3_Witness ==
    /\ pc = "done"
    /\ ret = [tag |-> "Err",
              err |-> [kind |-> "InvalidLumpOrder", ptr |-> 16, name |-> D_E1M1]]

---------------------------------------------------------------------------
(* C4 *)

\* C4: when the accumulator holds exactly the nine required kinds (they were
\* read contiguously from an empty accumulator, in whatever order) and the
\* next record is no component, the iteration succeeds and pushes exactly
\* one Map, which holds the nine accumulated lumps and no optional one; and
\* when the directory is exhausted, from_file returns Ok of the Wad built.
C4_NineThenOther ==
    [][/\ \A rec \in Recs :
            (/\ pc = "loop"
             /\ rec.lump.kind = "Other"
             /\ DOMAIN map_components = REQUIRED_MAP_COMPONENTS
             /\ Process(rec))
            => /\ Emitted
               /\ \A k \in REQUIRED_MAP_COMPONENTS :
                    NewMap[FieldOfKind[k]] = map_components[k]
               /\ \A f \in OptionalFields : NewMap[f] = None
       /\ (pc = "loop" /\ ~(i < header.dir_ct) /\ pc' # pc)
            => (pc' = "done" /\ ret' = [tag |-> "Ok", wad |-> wad])]_vars

\* a load of thirteen records returned a Wad with one Map of nine components
C4_Witness ==
    /\ pc = "done"
    /\ ret.tag = "Ok"
    /\ Len(ret.wad.maps) = 1
    /\ \A f \in RequiredFields : ret.wad.maps[1][f].kind = KindOfField[f]
    /\ \A f \in OptionalFields : ret.wad.maps[1][f] = None

---------------------------------------------------------------------------
(* C5 *)

\* C5, as claimed: when the accumulator holds exactly the nine required
\* kinds and the next record is a required component again (the second of
\* two back-to-back sequences starts, no marker between), a Map is pushed
\* and the load goes on.
C5_Original ==
    [][\A rec \in Recs :
        (/\ pc = "loop"
         /\ rec.lump.kind \in REQUIRED_MAP_COMPONENTS
         /\ DOMAIN map_components = REQUIRED_MAP_COMPONENTS
         /\ Process(rec))
        => Emitted]_vars

\* C5, amended: two back-to-back sequences of the nine required components
\* with no non-component lump between them emit no Map: the first record of
\* the second sequence finds its kind in the accumulator and from_file
\* returns Err(InvalidLumpOrder(ptr, name)) with that record's ptr and name,
\* the maps list being as it was before the first sequence.
C5_BackToBackFails ==
    [][/\ \A rec \in Recs :
            (/\ pc = "loop"
             /\ rec.lump.kind \in REQUIRED_MAP_COMPONENTS
             /\ DOMAIN map_components = REQUIRED_MAP_COMPONENTS
             /\ Process(rec))
            => /\ pc' = "done"
               /\ ret'.tag = "Err"
               /\ ret'.err.kind = "InvalidLumpOrder"
               /\ ret'.err.ptr = rec.raw.ptr
               /\ ret'.err.name = rec.lump.name
       /\ (pc = "loop" /\ pc' = "loop" /\ DOMAIN map_components' # {})
            => wad'.maps = wad.maps]_vars

\* nine records were read, the nine required components, no Map was pushed,
\* and the directory goes on with a required component
C5_Witness ==
    /\ pc = "loop"
    /\ i = 9
    /\ DOMAIN map_components = REQUIRED_MAP_COMPONENTS
    /\ wad.maps = <<>>
    /\ ENABLED (InLoop /\ \E rec \in Recs :
                    rec.lump.kind \in REQUIRED_MAP_COMPONENTS /\ DuplicateOn(rec))

---------------------------------------------------------------------------
(* C6 *)

\* C6, as claimed: every lump that an iteration processes without failing
\* and whose payload starts with a music tag is appended to the music
\* list and not to the flat lump list, whatever its name and whatever the
\* accumulator holds.
C6_Original ==
    [][\A rec \in Recs :
        (/\ pc = "loop"
         /\ StartsWithMusicTag(rec.lump.data)
         /\ Process(rec)
         /\ pc' = "loop")
        => /\ wad'.music = Append(wad.music, rec.lump)
           /\ wad'.lumps = wad.lumps]_vars

\* C6, amended: every lump whose payload starts with a music tag, whose
\* name is no component name and that arrives on an empty accumulator is
\* appended to the music list and not to the flat lump list, and the load
\* goes on.
C6_MusicOnEmptyAccumulator ==
    [][\A rec \in Recs :
        (/\ pc = "loop"
         /\ StartsWithMusicTag(rec.lump.data)
         /\ rec.lump.kind = "Other"
         /\ DOMAIN map_components = {}
         /\ Process(rec))
        => /\ pc' = "loop"
           /\ wad'.music = Append(wad.music, rec.lump)
           /\ wad'.lumps = wad.lumps]_vars

\* the MUS lump "D_E1M1" is in the music list, the flat lump list is empty
C6_Witness ==
    /\ pc = "loop"
    /\ wad.music = <<[name |-> D_E1M1, data |-> MUS, kind |-> "Other"]>>
    /\ wad.lumps = <<>>

---------------------------------------------------------------------------
(* C7 *)

\* C7, as claimed: a lump of kind Other without music header that arrives
\* on an empty accumulator sets the pending name to its name and is
\* appended to the flat lump list.
C7_MarkerKept ==
    [][\A rec \in Recs :
        (/\ pc = "loop"
         /\ rec.lump.kind = "Other"
         /\ ~StartsWithMusicTag(rec.lump.data)
         /\ DOMAIN map_components = {}
         /\ Process(rec))
        => /\ pc' = "loop"
           /\ possible_map_name' = rec.lump.name
           /\ wad'.lumps = Append(wad.lumps, rec.lump)]_vars

---------------------------------------------------------------------------
(* C8 *)

\* C8: the step that pushes a Map names it by the pending name it finds and
\* leaves the name of the lump that triggered it as the pending name; the
\* pending name found is that of the last lump that set it before the
\* components began, since accumulating a component and routing a lump to
\* the music list leave it as it is.
C8_NameIsPendingName ==
    [][/\ \A rec \in Recs :
            (pc = "loop" /\ rec.lump.kind = "Other" /\ HoldsAllNine /\ Process(rec))
            => /\ Emitted
               /\ NewMap.name = possible_map_name
               /\ possible_map_name' = rec.lump.name
       /\ (pc = "loop" /\ pc' = "loop"
            /\ (DOMAIN map_components' # {} \/ wad'.music # wad.music))
            => possible_map_name' = possible_map_name]_vars

\* a Map named E1M1, pushed by the lump MAP01
C8_Witness ==
    /\ pc = "loop"
    /\ Len(wad.maps) = 1
    /\ wad.maps[1].name = E1M1
    /\ possible_map_name = MAP01
    /\ DOMAIN map_components = {}

---------------------------------------------------------------------------
(* C9 *)

\* C9, as claimed: the Map that a step pushes is named by the lump that
\* triggers the emission.
C9_Original ==
    [][\A rec \in Recs :
        (pc = "loop" /\ rec.lump.kind = "Other" /\ HoldsAllNine /\ Process(rec))
        => (Emitted /\ NewMap.name = rec.lump.name)]_vars

\* C9, amended: naming is not deferred.  A Map gets its name when it is
\* pushed, the pending name at that moment; the lump that triggers the
\* emission names no Map then, and no later step changes a Map of the
\* list, up to the Wad returned.
C9_NameFixedAtEmission ==
    [][/\ (pc = "loop" /\ pc' = "loop")
            => /\ Len(wad'.maps) >= Len(wad.maps)
               /\ SubSeq(wad'.maps, 1, Len(wad.maps)) = wad.maps
               /\ \A n \in (Len(wad.maps) + 1)..Len(wad'.maps) :
                    wad'.maps[n].name = possible_map_name
       /\ (pc = "loop" /\ pc' = "done" /\ ret'.tag = "Ok")
            => ret'.wad.maps = wad.maps]_vars

\* the Wad returned holds a Map named "": no lump that triggers an emission
\* has that name
C9_Witness ==
    /\ pc = "done"
    /\ ret.tag = "Ok"
    /\ Len(ret.wad.maps) = 1
    /\ ret.wad.maps[1].name = <<>>
    /\ ret.wad.header.dir_ct = 13

---------------------------------------------------------------------------
(* C10 *)

\* C10: the step that pushes a Map leaves the accumulator empty, every lump
\* the accumulator held (the nine required ones and each optional one
\* present) being in the field of its kind of the Map pushed: the debug
\* assertion never fails.
C10_AccumulatorEmptied ==
    [][\A rec \in Recs :
        (pc = "loop" /\ rec.lump.kind = "Other" /\ HoldsAllNine /\ Process(rec))
        => /\ Emitted
           /\ map_components' = EmptyMap
           /\ \A k \in DOMAIN map_components :
                IF k \in REQUIRED_MAP_COMPONENTS
                THEN NewMap[FieldOfKind[k]] = map_components[k]
                ELSE NewMap[FieldOfKind[k]] = [tag |-> "Some", val |-> map_components[k]]
           /\ \A k \in OPTIONAL_MAP_COMPONENTS \ DOMAIN map_components :
                NewMap[FieldOfKind[k]] = None]_vars

\* a Map with the three optional components was pushed
C10_Witness ==
    /\ pc = "loop"
    /\ Len(wad.maps) = 1
    /\ \A f \in OptionalFields : wad.maps[1][f] # None
    /\ map_components = EmptyMap

---------------------------------------------------------------------------
(* C11 *)

\* C11: when the first 4 bytes of the file are neither "IWAD" nor "PWAD",
\* the step that reads them returns Err(NotAWad(path)) with the path of the
\* file and no Wad, and it does so with dir_ct and dir_ptr not read, no Wad
\* made and no directory record read; the load of such a file never gets
\* to the directory and can only fail otherwise by an I/O error before.
C11_NotAWadBeforeDirectory ==
    /\ [](file.id \notin {IWAD, PWAD}
            => /\ pc \in {"open", "id", "done"}
               /\ pc = "done" =>
                    ret \in {[tag |-> "Err", err |-> [kind |-> "Io"]],
                             [tag |-> "Err",
                              err |-> [kind |-> "NotAWad", path |-> file.path]]})
    /\ [][(pc = "id" /\ file.id \notin {IWAD, PWAD} /\ ReadId)
            => /\ pc' = "done"
               /\ ret' = [tag |-> "Err",
                          err |-> [kind |-> "NotAWad", path |-> file.path]]
               /\ pos = 0
               /\ header.dir_ct = Unread
               /\ header.dir_ptr = Unread
               /\ wad = None
               /\ i = 0]_vars

\* the load of "archive.zip", which starts with "PK", failed with NotAWad
C11_Witness ==
    /\ pc = "done"
    /\ ret = [tag |-> "Err", err |-> [kind |-> "NotAWad", path |-> "archive.zip"]]

---------------------------------------------------------------------------
(* C12 *)

\* C12, as claimed: a load that stopped has returned, Ok or Err and
\* nothing else; Ok is returned only by the step that finds the range
\* 0..dir_ct exhausted, and it returns the Wad built; Err is returned with
\* one of the four errors, and no step follows a return.
C12_TwoOutcomes ==
    /\ [](pc \notin {"open", "id", "dir", "loop"}
            => (pc = "done" /\ ret.tag \in {"Ok", "Err"}))
    /\ [][/\ pc = "done" => pc' = "done" /\ ret' = ret
          /\ (pc' = "done" /\ ret'.tag = "Ok")
                => (pc = "loop" /\ ~(i < header.dir_ct) /\ ret'.wad = wad)
          /\ (pc' = "done" /\ ret'.tag = "Err")
                => ret'.err.kind \in {"Io", "Utf8", "NotAWad", "InvalidLumpOrder"}]_vars

---------------------------------------------------------------------------
(* C13 *)

\* the lumps the records of the loaded file may yield
LumpsOfFile == {rec.lump : rec \in Recs}

\* how many places of the Wad w and of the accumulator m hold the lump l:
\* elements of the three lists, values of the accumulator, fields of the
\* Maps, singleton slots
Owners(w, m, l) ==
    Cardinality({n \in 1..Len(w.lumps) : w.lumps[n] = l})
    + Cardinality({n \in 1..Len(w.music) : w.music[n] = l})
    + Cardinality({n \in 1..Len(w.sounds) : w.sounds[n] = l})
    + Cardinality({k \in DOMAIN m : m[k] = l})
    + Cardinality({nf \in (1..Len(w.maps)) \X RequiredFields :
                        w.maps[nf[1]][nf[2]] = l})
    + Cardinality({nf \in (1..Len(w.maps)) \X OptionalFields :
                        w.maps[nf[1]][nf[2]] = [tag |-> "Some", val |-> l]})
    + Cardinality({f \in {"playpal", "colormap", "endoom"} :
                        w[f] = [tag |-> "Some", val |-> l]})
    + Cardinality({n \in 1..2 : w.textures[n] = [tag |-> "Some", val |-> l]})
    + Cardinality({n \in 1..3 : w.demos[n] = [tag |-> "Some", val |-> l]})

\* how many lumps the Wad w and the accumulator m hold
Owned(w, m) ==
    Len(w.lumps) + Len(w.music) + Len(w.sounds) + Cardinality(DOMAIN m)
    + Cardinality({nf \in (1..Len(w.maps)) \X (RequiredFields \cup OptionalFields) :
                        w.maps[nf[1]][nf[2]] # None})
    + Cardinality({f \in {"playpal", "colormap", "endoom"} : w[f] # None})
    + Cardinality({n \in 1..2 : w.textures[n] # None})
    + Cardinality({n \in 1..3 : w.demos[n] # None})

\* C13: a lump is owned by at most one place.  Lumps are values here and
\* two records may yield equal lumps, so places are counted: the iteration
\* on a record either puts the lump of that record under a key the
\* accumulator did not hold and touches nothing else, or it adds at most
\* one place, and only for the lump of that record (every other lump is
\* moved or left where it is, never copied); so the places of the Wad and
\* of the accumulator never hold more lumps than records were read, and the
\* Wad returned holds no more; the Maps of the list share no lump in this
\* sense.
C13_OwnedOnce ==
    /\ [](pc = "loop" => Owned(wad, map_components) <= i)
    /\ [][/\ \A rec \in Recs :
                (pc = "loop" /\ pc' = "loop" /\ Process(rec))
                => \/ /\ wad' = wad
                      /\ rec.lump.kind \notin DOMAIN map_components
                      /\ map_components' =
                            [k \in DOMAIN map_components \cup {rec.lump.kind} |->
                                IF k = rec.lump.kind THEN rec.lump
                                ELSE map_components[k]]
                   \/ \A l \in LumpsOfFile :
                        Owners(wad', map_components', l)
                          <= Owners(wad, map_components, l)
                              + (IF l = rec.lump THEN 1 ELSE 0)
          /\ (pc = "loop" /\ pc' = "done" /\ ret'.tag = "Ok")
                => Owned(ret'.wad, EmptyMap) <= i]_vars

\* two Maps are in the list, with equal lumps "THINGS" from two records
C13_Witness ==
    /\ pc = "loop"
    /\ Len(wad.maps) = 2
    /\ wad.maps[1].things = wad.maps[2].things
    /\ Owned(wad, map_components) = 18

---------------------------------------------------------------------------
(* C14 *)

\* the state in which the load goes on after one more record, with the Wad
\* w, the pending name n and the accumulator m
GoesOn(w, n, m) == <<"loop", pos + 12, header, w, i + 1, n, m, None>>

\* the state in which the load has returned r
Returned(r) == <<"done", Gone, Gone, Gone, Gone, Gone, Gone, r>>

\* the one state that follows the iteration on the record rec
StateAfter(rec) ==
    LET b == Branch(map_components, rec.lump)
        map == Unwrapped(MapFrom(possible_map_name, map_components))
    IN  CASE b \in {"duplicate", "interrupt"} ->
                Returned(Err(InvalidLumpOrder(rec.raw.ptr, rec.lump.name)))
          [] b = "accumulate" ->
                GoesOn(wad, possible_map_name,
                       insert(map_components, rec.lump.kind, rec.lump))
          [] b = "emit" ->
                GoesOn([wad EXCEPT !.maps = Append(@, map)], rec.lump.name,
                       Drained(map_components))
          [] b = "music" ->
                GoesOn(PushMusic(wad, rec.lump), possible_map_name, map_components)
          [] b = "marker" ->
                GoesOn(wad, rec.lump.name, map_components)

\* C14: loading is deterministic.  What a step does is a function of the
\* state of the load and of what the step reads from the file: a record
\* read whole is classified by its bytes alone and leads to the single
\* state StateAfter, the signature read decides alone between NotAWad and
\* going on, and the end of the directory returns the Wad built; so two
\* loads that read the same header and the same records end with the same
\* maps, map names, music list and error.
C14_Deterministic ==
    [][/\ \A rec \in Recs :
            Process(rec)
            => <<pc', pos', header', wad', i', possible_map_name',
                 map_components', ret'>> = StateAfter(rec)
       /\ ReadId =>
            IF file.id \in {IWAD, PWAD}
            THEN pc' = "dir" /\ header'.id = file.id
            ELSE ret' = [tag |-> "Err",
                         err |-> [kind |-> "NotAWad", path |-> file.path]]
       /\ Finish => ret' = [tag |-> "Ok", wad |-> wad]]_vars

\* a load returned a Wad with a Map and a music lump
C14_Witness ==
    /\ pc = "done"
    /\ ret.tag = "Ok"
    /\ Len(ret.wad.maps) = 1
    /\ Len(ret.wad.music) = 1

---------------------------------------------------------------------------
(* C15 *)

\* the Wad under construction, or the Wad returned
WadNow == IF pc = "loop" THEN wad ELSE ret.wad

\* C15: in every reachable state the Wad under construction, and the Wad
\* returned, has an empty sounds list and nothing in the slots playpal,
\* colormap, endoom, textures (both) and demos (all three).
C15_SlotsEmpty ==
    (pc = "loop" \/ (pc = "done" /\ ret.tag = "Ok"))
    => /\ WadNow.sounds = <<>>
       /\ WadNow.playpal = None
       /\ WadNow.colormap = None
       /\ WadNow.endoom = None
       /\ \A n \in 1..2 : WadNow.textures[n] = None
       /\ \A n \in 1..3 : WadNow.demos[n] = None

\* the load has pushed a Map and a music lump, and left the sounds list
\* and the slots as Wad::new made them
C15_Witness ==
    /\ pc = "loop"
    /\ Len(wad.maps) = 1
    /\ Len(wad.music) = 1
    /\ wad.sounds = <<>>
    /\ wad.demos = <<None, None, None>>

---------------------------------------------------------------------------
(* C16 *)

\* C16: the step on a lump of kind Other that finds the nine required
\* kinds in the accumulator pushes a Map that does not hold that lump,
\* and keeps the lump nowhere: the flat lump list and the music list are
\* as before, also when the payload of the lump starts with a music tag;
\* apart from the maps list, the accumulator and the pending name, the
\* step changes only the loop counter and the stream position.
C16_TriggerNotRetained ==
    [][\A rec \in Recs :
        (pc = "loop" /\ HoldsAllNine /\ rec.lump.kind = "Other" /\ Process(rec))
        => /\ Emitted
           /\ wad'.lumps = wad.lumps
           /\ wad'.music = wad.music
           /\ [wad' EXCEPT !.maps = wad.maps] = wad
           /\ \A f \in RequiredFields : NewMap[f] # rec.lump
           /\ \A f \in OptionalFields : NewMap[f] # [tag |-> "Some", val |-> rec.lump]
           /\ map_components' = EmptyMap
           /\ possible_map_name' = rec.lump.name
           /\ header' = header /\ file' = file /\ ret' = ret]_vars

\* the nine required components were read, the music list is empty, and
\* the next record may be a lump of kind Other that holds a music tag
C16_Witness ==
    /\ pc = "loop"
    /\ i = 9
    /\ DOMAIN map_components = REQUIRED_MAP_COMPONENTS
    /\ wad.music = <<>>
    /\ ENABLED (InLoop /\ \E rec \in Recs :
                    StartsWithMusicTag(rec.lump.data) /\ EmitMapOn(rec))

---------------------------------------------------------------------------
(* C17 *)

---------------------------------------------------------------------------
(* C18 *)

\* C18: a Map is pushed only by the step on a lump of kind Other that finds
\* the nine required kinds in the accumulator: every step that goes on
\* makes the maps list longer by one in that case and leaves its length
\* otherwise, so the Maps are as many as these lumps were.  When the
\* directory is exhausted, from_file returns Ok of the Wad as it is,
\* whatever the accumulator holds: the components left in it make no Map
\* and are in no place of the Wad returned.
C18_MapsOnlyOnTrigger ==
    [][/\ \A rec \in Recs :
            (pc = "loop" /\ pc' = "loop" /\ Process(rec))
            => Len(wad'.maps) = Len(wad.maps)
                 + (IF rec.lump.kind = "Other" /\ HoldsAllNine THEN 1 ELSE 0)
       /\ (pc = "loop" /\ ~(i < header.dir_ct) /\ pc' # pc)
            => /\ pc' = "done"
               /\ ret' = [tag |-> "Ok", wad |-> wad]
               /\ Len(ret'.wad.maps) = Len(wad.maps)
               /\ Owned(ret'.wad, EmptyMap)
                    = Owned(wad, map_components) - Cardinality(DOMAIN map_components)]_vars

\* the directory is exhausted, the accumulator holds the nine required
\* components, no Map was pushed, and from_file is about to return
C18_Witness ==
    /\ pc = "loop"
    /\ ~(i < header.dir_ct)
    /\ HoldsAllNine
    /\ wad.maps = <<>>
    /\ ENABLED Finish

---------------------------------------------------------------------------
(* C19 *)

\* C19: the step that routes a lump to the music list (a lump of kind
\* Other with a music header, on an empty accumulator) appends it there
\* and leaves the pending name, the accumulator, the maps list and the
\* flat lump list as they are; so the Map pushed after a marker, a music
\* lump and the components is named by the marker: the step that pushes a
\* Map names it by the pending name.
C19_MusicKeepsPendingName ==
    [][/\ \A rec \in Recs :
            (/\ pc = "loop"
             /\ DOMAIN map_components = {}
             /\ rec.lump.kind = "Other"
             /\ StartsWithMusicTag(rec.lump.data)
             /\ Process(rec))
            => /\ pc' = "loop"
               /\ wad'.music = Append(wad.music, rec.lump)
               /\ possible_map_name' = possible_map_name
               /\ map_components' = map_components
               /\ wad'.maps = wad.maps
               /\ wad'.lumps = wad.lumps
       /\ (pc = "loop" /\ pc' = "loop" /\ Len(wad'.maps) > Len(wad.maps))
            => wad'.maps[Len(wad'.maps)].name = possible_map_name]_vars

\* twelve records were read, among them a music lump, and the Map pushed
\* is named E1M1, by the marker read before its components
C19_Witness ==
    /\ pc = "loop"
    /\ i = 12
    /\ Len(wad.music) = 1
    /\ Len(wad.maps) = 1
    /\ wad.maps[1].name = E1M1

====
